---- MODULE Spec2Model ----
(***************************************************************************)
(* State-machine model of the Telegram file bot (src/main.py,              *)
(* src/db/database.py, src/handlers/user_handlers.py).                     *)
(*                                                                         *)
(* The persistent store (tables users, auth_keys, storage), the blob       *)
(* directory TEMP_DIR and the in-memory FSM storage are the shared state.  *)
(* Every inbound update is routed to the first registered handler whose    *)
(* filters pass and then runs as its own task; a task is suspended at      *)
(* every awaited store access, so the steps of different tasks interleave. *)
(***************************************************************************)
EXTENDS Integers, Sequences, FiniteSets, TLC

VARIABLES users, auth_keys, storage, storage_seq, disk, fsm, tasks, logs_ok

vars == <<users, auth_keys, storage, storage_seq, disk, fsm, tasks, logs_ok>>

(***************************************************************************)
(* Bounds of the model.                                                    *)
(***************************************************************************)
\* number of ids the storage.id SERIAL sequence may hand out
MaxFiles == 2

\* the same, where the upload dialogue itself is examined
MaxSessionFiles == 1

\* chat users that send updates
UserIds == {1, 2}

\* concurrently running handler tasks
TaskIds == {1, 2}

\* /auth arguments that are sent: two of the seeded keys, an unknown key, no argument
NoArg == "<none>"
AuthArgs == {"key123", "secretkey", "wrongkey", NoArg}

\* a text, caption or argument that is absent
None == "<None>"

\* file names are kept as stem and suffix (pathlib's split); NoFileName is a
\* document without file_name
Name(stem, suffix) == [stem |-> stem, suffix |-> suffix]
NoFileName == Name(<<>>, "")

\* file names of the documents that are sent
FileNames == {Name(<<"REPORT">>, ".PDF"), Name(<<"notes">>, ".txt"), NoFileName}

\* file_unique_id values of the uploaded media
FileUniqueIds == {"AgAD"}

\* values of datetime.now() at one-second resolution
Timestamps == {"20250101_000000"}

\* callback data of the file type keyboard, and one value no button carries
FileTypes == {"document", "photo", "video"}

\* file ids a delete callback may carry
FileIds == 1..(MaxFiles + 1)

(***************************************************************************)
(* Constants of the program.                                               *)
(***************************************************************************)
test_keys == {"key123", "secretkey", "auth777"}

\* (variant) text files are allowed too
ALLOWED_DOC_EXTENSIONS_Txt == {".pdf", ".doc", ".docx", ".xlsx", ".txt"}

ALLOWED_DOC_EXTENSIONS == {".pdf", ".doc", ".docx", ".xlsx"}

\* FSM states of states.FileUpload; StateNone is the default (idle) state
StateNone == "None"
choosing_file_type == "FileUpload:choosing_file_type"
awaiting_document == "FileUpload:awaiting_document"
awaiting_photo == "FileUpload:awaiting_photo"
FileUpload == {choosing_file_type, awaiting_document, awaiting_photo}
FsmStates == FileUpload \cup {StateNone}

\* a users row that does not exist (fetchrow returns None)
NoRow == [rows |-> 0, is_authorized |-> FALSE]

(***************************************************************************)
(* Updates sent by the chat transport.                                     *)
(***************************************************************************)
\* texts of the reply keyboard buttons (keyboards.py), transliterated
BTN_AUTH == "Avtoryzatsiia"
BTN_LOGOUT == "Rozlohinytys"
BTN_PROCESS == "Obrobyty fail"
BTN_LIST == "Spysok zavantazhennykh failiv"

Texts == {"/start", "/auth", "/cancel", BTN_AUTH, BTN_LOGOUT, BTN_PROCESS, BTN_LIST, "hello"}

TextMessage(t, a) == [update |-> "message", kind |-> "text", text |-> t, arg |-> a]
DocumentMessage(n, f) == [update |-> "message", kind |-> "document", text |-> None,
                          arg |-> [file_name |-> n, file_unique_id |-> f]]
PhotoMessage(f) == [update |-> "message", kind |-> "photo", text |-> None,
                    arg |-> [file_unique_id |-> f]]
FileTypeCallback(t) == [update |-> "callback_query", kind |-> "file_type", text |-> None, arg |-> t]
DeleteFileCallback(i) == [update |-> "callback_query", kind |-> "delete_file", text |-> None, arg |-> i]

Updates ==
    {TextMessage(t, NoArg) : t \in Texts \ {"/auth"}}
    \cup {TextMessage("/auth", a) : a \in AuthArgs}
    \cup {DocumentMessage(n, f) : n \in FileNames, f \in FileUniqueIds}
    \cup {PhotoMessage(f) : f \in FileUniqueIds}
    \cup {FileTypeCallback(t) : t \in FileTypes}
    \cup {DeleteFileCallback(i) : i \in FileIds}

(***************************************************************************)
(* Routing: the handlers of the router in registration order; an update is *)
(* given to the first handler of its observer whose filters all pass.      *)
(***************************************************************************)
MessageHandlers ==
    << "cmd_start", "cmd_auth", "handle_auth_button", "handle_logout",
       "handle_process_file", "handle_list_files",
       "handle_document_upload", "handle_photo_upload",
       "handle_wrong_document_input", "handle_wrong_photo_input",
       "handle_text_instead_of_callback", "cancel_upload_command" >>

CallbackHandlers == << "handle_file_type_choice", "handle_delete_file" >>

Unhandled == "UNHANDLED"

\* the filters given to @router.message(...) / @router.callback_query(...)
Filter(h, ev, st) ==
    CASE h = "cmd_start" -> ev.text = "/start"
      [] h = "cmd_auth" -> ev.text = "/auth"
      [] h = "handle_auth_button" -> ev.text = BTN_AUTH
      [] h = "handle_logout" -> ev.text = BTN_LOGOUT
      [] h = "handle_process_file" -> ev.text = BTN_PROCESS
      [] h = "handle_list_files" -> ev.text = BTN_LIST
      [] h = "handle_document_upload" -> st = awaiting_document /\ ev.kind = "document"
      [] h = "handle_photo_upload" -> st = awaiting_photo /\ ev.kind = "photo"
      [] h = "handle_wrong_document_input" -> st = awaiting_document
      [] h = "handle_wrong_photo_input" -> st = awaiting_photo
      [] h = "handle_text_instead_of_callback" -> st = choosing_file_type
      [] h = "cancel_upload_command" -> ev.text = "/cancel" /\ st \in FileUpload
      [] h = "handle_file_type_choice" -> ev.kind = "file_type" /\ st = choosing_file_type
      [] h = "handle_delete_file" -> ev.kind = "delete_file"
      [] OTHER -> FALSE

FirstMatch(handlers, ev, st) ==
    LET hits == {i \in 1..Len(handlers) : Filter(handlers[i], ev, st)}
    IN  IF hits = {} THEN Unhandled
        ELSE handlers[CHOOSE i \in hits : \A j \in hits : i <= j]

Route(ev, st) ==
    IF ev.update = "message" THEN FirstMatch(MessageHandlers, ev, st)
    ELSE FirstMatch(CallbackHandlers, ev, st)

\* handlers wrapped by @require_authorization
Gated ==
    { "handle_logout", "handle_process_file", "handle_list_files",
      "handle_file_type_choice", "handle_delete_file",
      "handle_document_upload", "handle_photo_upload",
      "handle_wrong_document_input", "handle_wrong_photo_input",
      "handle_text_instead_of_callback" }

(***************************************************************************)
(* Store, blob directory, FSM storage and handler tasks.                   *)
(***************************************************************************)
\* a task slot that runs no handler
Free == [h |-> Unhandled, pc |-> "free", uid |-> 0, kind |-> None, text |-> None,
         arg |-> NoArg, loc |-> NoArg]

IsFree(k) == tasks[k].pc = "free"

Registered(u) == users[u].rows > 0

Authorized(u) == users[u].rows > 0 /\ users[u].is_authorized

\* (variant) the seed rows are written at every start
create_tables_Reseed(keys) == [t \in test_keys |-> FALSE]

\* create_tables: the auth_keys table is seeded only when it holds no row
create_tables(keys) ==
    IF Cardinality(DOMAIN keys) = 0 THEN [t \in test_keys |-> FALSE] ELSE keys

\* get_file_record: the storage rows with the given id (at most one, id is the key)
get_file_record(file_id) == {i \in 1..Len(storage) : storage[i].id = file_id}

\* get_user_files: the user's rows joined with users, newest first
RECURSIVE Reverse(_)
Reverse(s) == IF s = <<>> THEN <<>> ELSE Append(Reverse(Tail(s)), Head(s))

get_user_files(user_id) ==
    IF Registered(user_id)
    THEN Reverse(SelectSeq(storage, LAMBDA r : r.user_id = user_id))
    ELSE <<>>

\* DELETE FROM storage WHERE id = $1
RemoveRow(file_id) == SelectSeq(storage, LAMBDA r : r.id # file_id)

\* the store after the first start of main(): create_tables has run on empty tables
Init ==
    /\ users = [u \in UserIds |-> NoRow]
    /\ auth_keys = create_tables(<<>>)
    /\ storage = <<>>
    /\ storage_seq = 0
    /\ disk = {}
    /\ fsm = [u \in UserIds |-> StateNone]
    /\ tasks = [k \in TaskIds |-> Free]
    /\ logs_ok = TRUE

(***************************************************************************)
(* Dispatch of an update: Dispatcher.start_polling runs every update as a  *)
(* task of its own; the filters are evaluated against the FSM state at     *)
(* dispatch.                                                               *)
(***************************************************************************)
UploadHandlers == {"handle_document_upload", "handle_photo_upload"}

UploadsInFlight == Cardinality({k \in TaskIds : tasks[k].h \in UploadHandlers})

Entry(h) ==
    IF h = Unhandled THEN "unhandled"
    ELSE IF h \in Gated THEN "guard"
    ELSE IF h \in {"cmd_start", "cmd_auth"} THEN "get_user"
    ELSE "body"

\* K: the task slots the dispatcher may use (one slot: updates are handled one
\* at a time); max_files: the uploads are accepted while ids are left
Dispatch(u, ev, K, max_files) ==
    LET h == Route(ev, fsm[u])
        free == {k \in K : IsFree(k)}
    IN  /\ free # {}
        /\ h \in UploadHandlers => storage_seq + UploadsInFlight < max_files
        /\ LET k == CHOOSE i \in free : \A j \in free : i <= j
           IN  tasks' = [tasks EXCEPT ![k] =
                   [h |-> h, pc |-> Entry(h), uid |-> u, kind |-> ev.kind,
                    text |-> ev.text, arg |-> ev.arg, loc |-> NoArg]]
        /\ UNCHANGED <<users, auth_keys, storage, storage_seq, disk, fsm, logs_ok>>

(***************************************************************************)
(* require_authorization: the wrapper reads the users row and runs the     *)
(* handler only for an authorized user.  The handler's code up to its      *)
(* first await runs in the same step.                                      *)
(***************************************************************************)
\* str.lower() on the suffixes that occur
Lower(suffix) == IF suffix = ".PDF" THEN ".pdf" ELSE suffix

\* TEMP_DIR / str(user_id) / desired_filename
FilePath(user_id, filename) == [dir |-> user_id, name |-> filename]

\* handle_document_upload up to _save_uploaded_file
DocumentLocals(user_id, document) ==
    LET original_filename ==
            IF document.file_name = NoFileName THEN Name(<<"unknown_document">>, "")
            ELSE document.file_name
        file_extension == Lower(original_filename.suffix)
        save_filename == Name(<<document.file_unique_id>>, file_extension)
    IN  [original_filename |-> original_filename,
         file_extension |-> file_extension,
         file_type |-> "document",
         file_path |-> FilePath(user_id, save_filename)]

\* handle_photo_upload up to _save_uploaded_file
PhotoLocals(user_id, photo, timestamp) ==
    LET save_filename == Name(<<"photo", photo.file_unique_id, timestamp>>, ".jpg")
    IN  [original_filename |-> save_filename,
         file_extension |-> ".jpg",
         file_type |-> "photo",
         file_path |-> FilePath(user_id, save_filename)]

\* the first await of each gated handler's body
BodyEntry(h) ==
    CASE h = "handle_logout" -> "set_user_authorization_status"
      [] h = "handle_delete_file" -> "get_file_record"
      [] h \in UploadHandlers -> "save_uploaded_file"
      [] OTHER -> "body"

Finish(k) == tasks' = [tasks EXCEPT ![k] = Free]

Goto(k, pc) == tasks' = [tasks EXCEPT ![k].pc = pc]

GotoWith(k, pc, loc) == tasks' = [tasks EXCEPT ![k].pc = pc, ![k].loc = loc]

\* (variant) the wrapper only tests that the users row exists
require_authorization_RegisteredOnly(k) ==
    LET t == tasks[k]
    IN  /\ t.pc = "guard"
        /\ IF ~Registered(t.uid)
           THEN Finish(k)                       \* unauthorized reply
           ELSE IF t.h = "handle_document_upload"
           THEN LET l == DocumentLocals(t.uid, t.arg)
                IN  IF l.file_extension \notin ALLOWED_DOC_EXTENSIONS
                    THEN Finish(k)              \* wrong format reply
                    ELSE GotoWith(k, BodyEntry(t.h), l)
           ELSE IF t.h = "handle_photo_upload"
           THEN \E ts \in Timestamps :
                    GotoWith(k, BodyEntry(t.h), PhotoLocals(t.uid, t.arg, ts))
           ELSE Goto(k, BodyEntry(t.h))
        /\ UNCHANGED <<users, auth_keys, storage, storage_seq, disk, fsm, logs_ok>>

require_authorization(k) ==
    LET t == tasks[k]
    IN  /\ t.pc = "guard"
        /\ IF ~Authorized(t.uid)
           THEN Finish(k)                       \* unauthorized reply
           ELSE IF t.h = "handle_document_upload"
           THEN LET l == DocumentLocals(t.uid, t.arg)
                IN  IF l.file_extension \notin ALLOWED_DOC_EXTENSIONS
                    THEN Finish(k)              \* wrong format reply
                    ELSE GotoWith(k, BodyEntry(t.h), l)
           ELSE IF t.h = "handle_photo_upload"
           THEN \E ts \in Timestamps :
                    GotoWith(k, BodyEntry(t.h), PhotoLocals(t.uid, t.arg, ts))
           ELSE Goto(k, BodyEntry(t.h))
        /\ UNCHANGED <<users, auth_keys, storage, storage_seq, disk, fsm, logs_ok>>

\* no handler's filters passed: the update is dropped ("Update is not handled")
Drop(k) ==
    /\ tasks[k].pc = "unhandled"
    /\ Finish(k)
    /\ UNCHANGED <<users, auth_keys, storage, storage_seq, disk, fsm, logs_ok>>

(***************************************************************************)
(* Handlers whose only effect on the shared state is on the FSM state of   *)
(* the sender: each operator gives the state the handler leaves.           *)
(***************************************************************************)
\* variants of handle_process_file: it sets the state of the next step; it leaves
\* a session that is under way alone
handle_process_file_Document(st) == awaiting_document

handle_process_file_FromIdle(st) == IF st = StateNone THEN choosing_file_type ELSE st

handle_process_file(st) == choosing_file_type

handle_file_type_choice(file_type, st) ==
    IF file_type = "document" THEN awaiting_document
    ELSE IF file_type = "photo" THEN awaiting_photo
    ELSE StateNone

cancel_upload_command(st) == IF st = StateNone THEN st ELSE StateNone

\* what cancel_upload_command replies
CancelReply(st) == IF st = StateNone THEN "nothing to cancel" ELSE "cancelled"

BodyState(h, arg, st) ==
    CASE h = "handle_process_file" -> handle_process_file(st)
      [] h = "handle_file_type_choice" -> handle_file_type_choice(arg, st)
      [] h = "cancel_upload_command" -> cancel_upload_command(st)
      [] OTHER -> st   \* handle_auth_button, handle_list_files, the wrong-input handlers

\* (variant) the exception of a failed INSERT INTO logs leaves the function
log_user_action_Raises(ok) == IF ok THEN "returned" ELSE "raised"

\* log_user_action: the INSERT INTO logs succeeds (ok) or fails; the except
\* clause logs the failure and the function returns in both cases
log_user_action(ok) == IF ok THEN "returned" ELSE "returned"

\* each of these handlers awaits log_user_action first, then replies and writes
\* the FSM state
Body(k) ==
    LET t == tasks[k]
    IN  /\ t.pc = "body"
        /\ IF log_user_action(logs_ok) = "returned"
           THEN fsm' = [fsm EXCEPT ![t.uid] = BodyState(t.h, t.arg, fsm[t.uid])]
           ELSE UNCHANGED fsm
        /\ Finish(k)
        /\ UNCHANGED <<users, auth_keys, storage, storage_seq, disk, logs_ok>>

(***************************************************************************)
(* cmd_start                                                               *)
(***************************************************************************)
\* log_desc as cmd_start builds it, with the number of rows the handler has
\* inserted into logs so far
log_desc(user_id, outcome, logged) ==
    [log_desc |-> "User " \o ToString(user_id) \o " used /start." \o outcome,
     logged |-> logged]

\* the rows one call of log_user_action adds to logs
LogRows(ok) == IF log_user_action(ok) = "returned" /\ ok THEN 1 ELSE 0

\* get_user, and the log_desc chosen for a registered user
StartGetUser(k) ==
    LET t == tasks[k]
    IN  /\ t.h = "cmd_start" /\ t.pc = "get_user"
        /\ IF Registered(t.uid)
           THEN IF users[t.uid].is_authorized
                THEN GotoWith(k, "answer",
                              log_desc(t.uid, " Already registered and authorized.", 0))
                ELSE GotoWith(k, "answer",
                              log_desc(t.uid, " Already registered, but not authorized.", 0))
           ELSE Goto(k, "add_user")
        /\ UNCHANGED <<users, auth_keys, storage, storage_seq, disk, fsm, logs_ok>>

\* (variant) a users table whose user_id column carries no UNIQUE constraint
users_user_id_key_Absent(user_id) == FALSE

\* user_id BIGINT UNIQUE NOT NULL: an INSERT of a user_id that has a row raises
users_user_id_key(user_id) == users[user_id].rows > 0

\* (variant) the row is inserted as authorized
add_user_Authorized(user_id) ==
    [users EXCEPT ![user_id] = [rows |-> @.rows + 1, is_authorized |-> TRUE]]

\* add_user: INSERT INTO users ... is_authorized FALSE; get_user reads the
\* first row of the user_id
add_user(user_id) ==
    [users EXCEPT ![user_id] =
        [rows |-> @.rows + 1,
         is_authorized |-> IF @.rows = 0 THEN FALSE ELSE @.is_authorized]]

\* the insert raises when a concurrent /start has registered the user
\* meanwhile; either branch calls log_user_action once
StartAddUser(k) ==
    LET t == tasks[k]
    IN  /\ t.h = "cmd_start" /\ t.pc = "add_user"
        /\ IF users_user_id_key(t.uid)
           THEN /\ GotoWith(k, "answer",
                            log_desc(t.uid, "Registration failed.", LogRows(logs_ok)))
                /\ UNCHANGED users
           ELSE /\ users' = add_user(t.uid)
                /\ GotoWith(k, "answer",
                            log_desc(t.uid, "New user registration.", LogRows(logs_ok)))
        /\ UNCHANGED <<auth_keys, storage, storage_seq, disk, fsm, logs_ok>>

\* sub in s, for Python strings
In(sub, s) ==
    \E i \in 1..(Len(s) - Len(sub) + 1) : SubSeq(s, i, i + Len(sub) - 1) = sub

\* message.answer, then log_desc is logged unless it holds "registered" or
\* "failed"
StartAnswer(k) ==
    LET t == tasks[k]
        d == t.loc.log_desc
    IN  /\ t.h = "cmd_start" /\ t.pc = "answer"
        /\ IF ~In("registered", d) /\ ~In("failed", d)
           THEN GotoWith(k, "return", [t.loc EXCEPT !.logged = @ + LogRows(logs_ok)])
           ELSE Goto(k, "return")
        /\ UNCHANGED <<users, auth_keys, storage, storage_seq, disk, fsm, logs_ok>>

\* cmd_start returns
StartReturn(k) ==
    LET t == tasks[k]
    IN  /\ t.h = "cmd_start" /\ t.pc = "return"
        /\ Finish(k)
        /\ UNCHANGED <<users, auth_keys, storage, storage_seq, disk, fsm, logs_ok>>

(***************************************************************************)
(* cmd_auth and authorize_user_with_key.  The transaction reads the key    *)
(* row FOR UPDATE, so it waits while another transaction holds the row;    *)
(* its two updates become visible together at commit.                      *)
(***************************************************************************)
InTransaction == {"mark_key_used", "set_user_authorized_in_transaction", "commit"}

\* the key row is locked by a transaction other than task k's
KeyLocked(k, auth_key) ==
    \E j \in TaskIds \ {k} :
        tasks[j].h = "cmd_auth" /\ tasks[j].pc \in InTransaction /\ tasks[j].arg = auth_key

\* the users row is locked by an uncommitted UPDATE of a task other than k
UserLocked(k, user_id) ==
    \E j \in TaskIds \ {k} :
        tasks[j].h = "cmd_auth" /\ tasks[j].pc = "commit" /\ tasks[j].uid = user_id
            /\ Registered(user_id)

\* the guards of cmd_auth before authorize_user_with_key
AuthGetUser(k) ==
    LET t == tasks[k]
    IN  /\ t.h = "cmd_auth" /\ t.pc = "get_user"
        /\ IF ~Registered(t.uid) THEN Finish(k)             \* not registered
           ELSE IF users[t.uid].is_authorized THEN Finish(k) \* already authorized
           ELSE IF t.arg = NoArg THEN Finish(k)              \* no key provided
           ELSE Goto(k, "check_auth_key")
        /\ UNCHANGED <<users, auth_keys, storage, storage_seq, disk, fsm, logs_ok>>

\* (variant) a plain SELECT, which waits for no lock
ForUpdateGranted_NoLock(k, auth_key) == TRUE

\* check_auth_key: SELECT ... FOR UPDATE is granted when no other transaction
\* holds the row
ForUpdateGranted(k, auth_key) == ~KeyLocked(k, auth_key)

\* (variant) without the early return for a used key
CheckAuthKey_NoUsedCheck(k) ==
    LET t == tasks[k]
    IN  /\ t.h = "cmd_auth" /\ t.pc = "check_auth_key"
        /\ ForUpdateGranted(k, t.arg)
        /\ IF t.arg \notin DOMAIN auth_keys THEN GotoWith(k, "reply", "invalid key")
           ELSE Goto(k, "mark_key_used")
        /\ UNCHANGED <<users, auth_keys, storage, storage_seq, disk, fsm, logs_ok>>

\* authorize_user_with_key: the locking read and the two early returns
CheckAuthKey(k) ==
    LET t == tasks[k]
    IN  /\ t.h = "cmd_auth" /\ t.pc = "check_auth_key"
        /\ ForUpdateGranted(k, t.arg)
        /\ IF t.arg \notin DOMAIN auth_keys THEN GotoWith(k, "reply", "invalid key")
           ELSE IF auth_keys[t.arg] THEN GotoWith(k, "reply", "key already used")
           ELSE Goto(k, "mark_key_used")
        /\ UNCHANGED <<users, auth_keys, storage, storage_seq, disk, fsm, logs_ok>>

\* (variant) the UPDATE runs outside the transaction and is visible at once
MarkKeyUsed_Autocommit(k) ==
    LET t == tasks[k]
    IN  /\ t.h = "cmd_auth" /\ t.pc = "mark_key_used"
        /\ auth_keys' = [auth_keys EXCEPT ![t.arg] = TRUE]
        /\ Goto(k, "set_user_authorized_in_transaction")
        /\ UNCHANGED <<users, storage, storage_seq, disk, fsm, logs_ok>>

\* mark_key_used: UPDATE auth_keys inside the transaction (not yet visible)
MarkKeyUsed(k) ==
    LET t == tasks[k]
    IN  /\ t.h = "cmd_auth" /\ t.pc = "mark_key_used"
        /\ Goto(k, "set_user_authorized_in_transaction")
        /\ UNCHANGED <<users, auth_keys, storage, storage_seq, disk, fsm, logs_ok>>

\* set_user_authorized_in_transaction: UPDATE users inside the transaction
SetUserAuthorizedInTransaction(k) ==
    LET t == tasks[k]
    IN  /\ t.h = "cmd_auth" /\ t.pc = "set_user_authorized_in_transaction"
        /\ ~UserLocked(k, t.uid)
        /\ Goto(k, "commit")
        /\ UNCHANGED <<users, auth_keys, storage, storage_seq, disk, fsm, logs_ok>>

\* the rows as the committed transaction leaves them
mark_key_used(auth_key) == [auth_keys EXCEPT ![auth_key] = TRUE]

set_user_authorized_in_transaction(user_id) ==
    IF Registered(user_id) THEN [users EXCEPT ![user_id].is_authorized = TRUE] ELSE users

Commit(k) ==
    LET t == tasks[k]
    IN  /\ t.h = "cmd_auth" /\ t.pc = "commit"
        /\ auth_keys' = mark_key_used(t.arg)
        /\ users' = set_user_authorized_in_transaction(t.uid)
        /\ GotoWith(k, "reply", "success")
        /\ UNCHANGED <<storage, storage_seq, disk, fsm, logs_ok>>

\* log_user_action and message.answer with the result of authorize_user_with_key
AuthReply(k) ==
    LET t == tasks[k]
    IN  /\ t.h = "cmd_auth" /\ t.pc = "reply"
        /\ Finish(k)
        /\ UNCHANGED <<users, auth_keys, storage, storage_seq, disk, fsm, logs_ok>>

(***************************************************************************)
(* handle_logout                                                           *)
(***************************************************************************)
\* (variant) the UPDATE has no WHERE clause
set_user_authorization_status_NoWhere(user_id, is_authorized) ==
    [u \in UserIds |->
        IF Registered(u) THEN [users[u] EXCEPT !.is_authorized = is_authorized]
        ELSE users[u]]

\* UPDATE users SET is_authorized = $1 WHERE user_id = $2: no row, no change
set_user_authorization_status(user_id, is_authorized) ==
    IF Registered(user_id) THEN [users EXCEPT ![user_id].is_authorized = is_authorized]
    ELSE users

HandleLogout(k) ==
    LET t == tasks[k]
    IN  /\ t.h = "handle_logout" /\ t.pc = "set_user_authorization_status"
        /\ ~UserLocked(k, t.uid)
        /\ users' = set_user_authorization_status(t.uid, FALSE)
        /\ Finish(k)
        /\ UNCHANGED <<auth_keys, storage, storage_seq, disk, fsm, logs_ok>>

(***************************************************************************)
(* handle_document_upload / handle_photo_upload                            *)
(***************************************************************************)
\* (variant) the handler does not test saved_path
SaveUploadedFile_Unchecked(k) ==
    LET t == tasks[k]
    IN  /\ t.h \in UploadHandlers /\ t.pc = "save_uploaded_file"
        /\ \/ disk' = disk \cup {t.loc.file_path}
           \/ UNCHANGED disk
        /\ Goto(k, "add_file_record")
        /\ UNCHANGED <<users, auth_keys, storage, storage_seq, fsm, logs_ok>>

\* _save_uploaded_file: bot.download writes the blob, or fails
SaveUploadedFile(k) ==
    LET t == tasks[k]
    IN  /\ t.h \in UploadHandlers /\ t.pc = "save_uploaded_file"
        /\ \/ /\ disk' = disk \cup {t.loc.file_path}
              /\ Goto(k, "add_file_record")
           \/ /\ Finish(k)                      \* could not save: reply, no state.clear()
              /\ UNCHANGED disk
        /\ UNCHANGED <<users, auth_keys, storage, storage_seq, fsm, logs_ok>>

\* the row INSERT INTO storage ... RETURNING id adds
StorageRow(id, user_id, l) ==
    [id |-> id, user_id |-> user_id, file_path |-> l.file_path,
     original_filename |-> l.original_filename, file_type |-> l.file_type]

\* add_file_record: the insert succeeds, or violates a constraint (logged and
\* swallowed), or fails otherwise (raised to the handler)
InsertOutcomes == {"inserted", "IntegrityConstraintViolationError", "Exception"}

AddFileRecord(k) ==
    LET t == tasks[k]
    IN  /\ t.h \in UploadHandlers /\ t.pc = "add_file_record"
        /\ storage_seq' = storage_seq + 1
        /\ \E outcome \in InsertOutcomes :
              \* storage.user_id REFERENCES users(user_id)
              /\ outcome = "IntegrityConstraintViolationError" => ~Registered(t.uid)
              /\ outcome = "inserted" => Registered(t.uid)
              /\ storage' = IF outcome = "inserted"
                            THEN Append(storage, StorageRow(storage_seq', t.uid, t.loc))
                            ELSE storage
              /\ Goto(k, IF outcome = "Exception" THEN "db_error" ELSE "uploaded")
        /\ UNCHANGED <<users, auth_keys, disk, fsm, logs_ok>>

\* (variant) state.clear() on a storage that keeps one state for all users
UploadClear_AllUsers(k) ==
    LET t == tasks[k]
    IN  /\ t.h \in UploadHandlers /\ t.pc \in {"uploaded", "db_error"}
        /\ IF log_user_action(logs_ok) = "returned"
           THEN fsm' = [u \in UserIds |-> StateNone]
           ELSE UNCHANGED fsm
        /\ Finish(k)
        /\ UNCHANGED <<users, auth_keys, storage, storage_seq, disk, logs_ok>>

\* reply, log_user_action and state.clear() on either branch of the try
UploadClear(k) ==
    LET t == tasks[k]
    IN  /\ t.h \in UploadHandlers /\ t.pc \in {"uploaded", "db_error"}
        /\ IF log_user_action(logs_ok) = "returned"
           THEN fsm' = [fsm EXCEPT ![t.uid] = StateNone]
           ELSE UNCHANGED fsm
        /\ Finish(k)
        /\ UNCHANGED <<users, auth_keys, storage, storage_seq, disk, logs_ok>>

(***************************************************************************)
(* handle_delete_file and delete_file_record                               *)
(***************************************************************************)
\* delete_file_record: the lookup
DeleteLookup(k) ==
    LET t == tasks[k]
        found == get_file_record(t.arg)
    IN  /\ t.h = "handle_delete_file" /\ t.pc = "get_file_record"
        /\ IF found = {} THEN Goto(k, "recheck")
           ELSE \E i \in found : GotoWith(k, "delete", storage[i].file_path)
        /\ UNCHANGED <<users, auth_keys, storage, storage_seq, disk, fsm, logs_ok>>

\* (variant) the DELETE compares the wrong column
delete_file_record_WrongColumn(file_id) ==
    SelectSeq(storage, LAMBDA r : r.user_id # file_id)

\* delete_file_record: DELETE FROM storage WHERE id = $1 RETURNING id
delete_file_record(file_id) == RemoveRow(file_id)

\* (variant) the path is returned whether or not the DELETE returned an id
DeleteRow_IgnoresReturning(k) ==
    LET t == tasks[k]
    IN  /\ t.h = "handle_delete_file" /\ t.pc = "delete"
        /\ storage' = delete_file_record(t.arg)
        /\ Goto(k, "delete_file_from_disk")
        /\ UNCHANGED <<users, auth_keys, storage_seq, disk, fsm, logs_ok>>

\* the DELETE and the test of the id it returns
DeleteRow(k) ==
    LET t == tasks[k]
    IN  /\ t.h = "handle_delete_file" /\ t.pc = "delete"
        /\ IF get_file_record(t.arg) # {}
           THEN /\ storage' = delete_file_record(t.arg)
                /\ Goto(k, "delete_file_from_disk")
           ELSE /\ UNCHANGED storage
                /\ GotoWith(k, "recheck", NoArg)
        /\ UNCHANGED <<users, auth_keys, storage_seq, disk, fsm, logs_ok>>

\* (variant) the OSError of unlink is not caught and the error reply is sent
DeleteFileFromDisk_Uncaught(k) ==
    LET t == tasks[k]
    IN  /\ t.h = "handle_delete_file" /\ t.pc = "delete_file_from_disk"
        /\ \/ /\ disk' = disk \ {t.loc}
              /\ Finish(k)
           \/ /\ t.loc \in disk                 \* unlink raises OSError
              /\ UNCHANGED disk
              /\ GotoWith(k, "not_found", NoArg)
        /\ UNCHANGED <<users, auth_keys, storage, storage_seq, fsm, logs_ok>>

\* _delete_file_from_disk, then "file deleted" is answered
DeleteFileFromDisk(k) ==
    LET t == tasks[k]
    IN  /\ t.h = "handle_delete_file" /\ t.pc = "delete_file_from_disk"
        /\ \/ disk' = disk \ {t.loc}
           \/ /\ t.loc \in disk                 \* unlink raises OSError
              /\ UNCHANGED disk
        /\ Finish(k)
        /\ UNCHANGED <<users, auth_keys, storage, storage_seq, fsm, logs_ok>>

\* (variant) a missing row is treated like a row of another user
DeleteRecheck_Denied(k) ==
    LET t == tasks[k]
        found == get_file_record(t.arg)
    IN  /\ t.h = "handle_delete_file" /\ t.pc = "recheck"
        /\ IF \A i \in found : storage[i].user_id # t.uid
           THEN Goto(k, "permission_denied")
           ELSE Goto(k, "not_found")
        /\ UNCHANGED <<users, auth_keys, storage, storage_seq, disk, fsm, logs_ok>>

\* the else branch: the second get_file_record decides between the two error replies
DeleteRecheck(k) ==
    LET t == tasks[k]
        found == get_file_record(t.arg)
    IN  /\ t.h = "handle_delete_file" /\ t.pc = "recheck"
        /\ IF \E i \in found : storage[i].user_id # t.uid
           THEN Goto(k, "permission_denied")
           ELSE Goto(k, "not_found")
        /\ UNCHANGED <<users, auth_keys, storage, storage_seq, disk, fsm, logs_ok>>

DeleteError(k) ==
    LET t == tasks[k]
    IN  /\ t.h = "handle_delete_file" /\ t.pc \in {"permission_denied", "not_found"}
        /\ Finish(k)
        /\ UNCHANGED <<users, auth_keys, storage, storage_seq, disk, fsm, logs_ok>>

(***************************************************************************)
(* The store is shared with its administrator.  The schema provides for    *)
(* the removal of a users row from outside the bot: storage rows go with   *)
(* it (ON DELETE CASCADE), the blobs stay on disk.                         *)
(***************************************************************************)
DeleteUserRow(u) ==
    /\ Registered(u)
    /\ \A k \in TaskIds : ~UserLocked(k, u)
    /\ users' = [users EXCEPT ![u] = NoRow]
    /\ storage' = SelectSeq(storage, LAMBDA r : r.user_id # u)
    /\ UNCHANGED <<auth_keys, storage_seq, disk, fsm, tasks, logs_ok>>

\* the logs table becomes unwritable, or writable again
LogsOutage ==
    /\ logs_ok' = ~logs_ok
    /\ UNCHANGED <<users, auth_keys, storage, storage_seq, disk, fsm, tasks>>

(***************************************************************************)
(* The process is stopped and main() runs again: the tasks and the         *)
(* MemoryStorage are gone, open transactions are rolled back, the store    *)
(* and the blob directory stay.                                            *)
(***************************************************************************)
Restart ==
    /\ auth_keys' = create_tables(auth_keys)
    /\ fsm' = [u \in UserIds |-> StateNone]
    /\ tasks' = [k \in TaskIds |-> Free]
    /\ UNCHANGED <<users, storage, storage_seq, disk, logs_ok>>

(***************************************************************************)
(* Specifications.  Each one delivers a set of updates to the same         *)
(* handlers; the store they start from is one the program reaches.         *)
(***************************************************************************)
StartSteps(k) == StartGetUser(k) \/ StartAddUser(k) \/ StartAnswer(k) \/ StartReturn(k)

AuthSteps(k) ==
    \/ AuthGetUser(k)
    \/ CheckAuthKey(k)
    \/ MarkKeyUsed(k)
    \/ SetUserAuthorizedInTransaction(k)
    \/ Commit(k)
    \/ AuthReply(k)

UploadSteps(k) == SaveUploadedFile(k) \/ AddFileRecord(k) \/ UploadClear(k)

DeleteSteps(k) ==
    \/ DeleteLookup(k)
    \/ DeleteRow(k)
    \/ DeleteFileFromDisk(k)
    \/ DeleteRecheck(k)
    \/ DeleteError(k)

\* registration, key redemption and logout, handled concurrently
AuthUpdates ==
    {TextMessage("/start", NoArg), TextMessage(BTN_LOGOUT, NoArg)}
    \cup {TextMessage("/auth", a) : a \in AuthArgs}

NextAuth ==
    \/ \E u \in UserIds, ev \in AuthUpdates : Dispatch(u, ev, TaskIds, MaxFiles)
    \/ \E k \in TaskIds :
        \/ require_authorization(k)
        \/ StartSteps(k)
        \/ AuthSteps(k)
        \/ HandleLogout(k)
    \/ Restart

Spec == Init /\ [][NextAuth]_vars

\* the store after both users have registered and redeemed a key each
\* (/start and /auth key123 by user 1, /start and /auth secretkey by user 2)
InitAuthorized ==
    /\ users = [u \in UserIds |-> [rows |-> 1, is_authorized |-> TRUE]]
    /\ auth_keys = [t \in test_keys |-> t \in {"key123", "secretkey"}]
    /\ storage = <<>>
    /\ storage_seq = 0
    /\ disk = {}
    /\ fsm = [u \in UserIds |-> StateNone]
    /\ tasks = [k \in TaskIds |-> Free]
    /\ logs_ok = TRUE

\* what each user uploads in SpecFiles: user 1 documents, user 2 photos
Chosen == [u \in UserIds |-> IF u = 1 THEN awaiting_document ELSE awaiting_photo]

\* the store after that and one upload: one of the users has uploaded a file,
\* which is stored as row 1, and both users have chosen a file type again
InitStored ==
    /\ users = [u \in UserIds |-> [rows |-> 1, is_authorized |-> TRUE]]
    /\ auth_keys = [t \in test_keys |-> t \in {"key123", "secretkey"}]
    /\ \E o \in UserIds, ev \in Updates :
          /\ Route(ev, Chosen[o]) \in UploadHandlers
          /\ LET l == IF ev.kind = "document" THEN DocumentLocals(o, ev.arg)
                      ELSE CHOOSE p \in {PhotoLocals(o, ev.arg, ts) : ts \in Timestamps} : TRUE
             IN  /\ l.file_extension \in ALLOWED_DOC_EXTENSIONS \cup {".jpg"}
                 /\ storage = << StorageRow(1, o, l) >>
                 /\ disk = {l.file_path}
    /\ storage_seq = 1
    /\ fsm = Chosen
    /\ tasks = [k \in TaskIds |-> Free]
    /\ logs_ok = TRUE

\* uploads into the chosen type, listing and deletion, handled concurrently
FileUpdates ==
    {TextMessage(BTN_LIST, NoArg)}
    \cup {DocumentMessage(n, f) : n \in FileNames, f \in FileUniqueIds}
    \cup {PhotoMessage(f) : f \in FileUniqueIds}
    \cup {DeleteFileCallback(i) : i \in FileIds}

NextFiles ==
    \/ \E u \in UserIds, ev \in FileUpdates : Dispatch(u, ev, TaskIds, MaxFiles)
    \/ \E k \in TaskIds :
        \/ Drop(k)
        \/ require_authorization(k)
        \/ Body(k)
        \/ UploadSteps(k)
        \/ DeleteSteps(k)
    \/ Restart

SpecFiles == InitStored /\ [][NextFiles]_vars

\* the store after both users have registered, redeemed a key and chosen a
\* file type
InitChosen ==
    /\ users = [u \in UserIds |-> [rows |-> 1, is_authorized |-> TRUE]]
    /\ auth_keys = [t \in test_keys |-> t \in {"key123", "secretkey"}]
    /\ storage = <<>>
    /\ storage_seq = 0
    /\ disk = {}
    /\ fsm = Chosen
    /\ tasks = [k \in TaskIds |-> Free]
    /\ logs_ok = TRUE

\* uploads and listings, handled concurrently, while users rows are removed
UploadUpdates ==
    {TextMessage(BTN_LIST, NoArg)}
    \cup {DocumentMessage(n, f) : n \in FileNames, f \in FileUniqueIds}
    \cup {PhotoMessage(f) : f \in FileUniqueIds}

NextUpload ==
    \/ \E u \in UserIds, ev \in UploadUpdates : Dispatch(u, ev, TaskIds, MaxFiles)
    \/ \E k \in TaskIds :
        \/ Drop(k)
        \/ require_authorization(k)
        \/ Body(k)
        \/ UploadSteps(k)
    \/ \E u \in UserIds : DeleteUserRow(u)
    \/ Restart

SpecUpload == InitChosen /\ [][NextUpload]_vars

\* the upload dialogue of both users with the other updates in between, one
\* update handled at a time
SessionUpdates ==
    {TextMessage(t, NoArg) : t \in {"/start", "/cancel", BTN_PROCESS, BTN_LIST, BTN_LOGOUT, "hello"}}
    \cup {FileTypeCallback(t) : t \in FileTypes}
    \cup {DocumentMessage(n, f) : n \in FileNames, f \in FileUniqueIds}
    \cup {PhotoMessage(f) : f \in FileUniqueIds}

NextSession ==
    \/ \E u \in UserIds, ev \in SessionUpdates : Dispatch(u, ev, {1}, MaxSessionFiles)
    \/ \E k \in TaskIds :
        \/ Drop(k)
        \/ require_authorization(k)
        \/ Body(k)
        \/ StartGetUser(k)
        \/ StartAnswer(k)
        \/ StartReturn(k)
        \/ HandleLogout(k)
        \/ UploadSteps(k)
    \/ Restart

SpecSession == InitAuthorized /\ [][NextSession]_vars

\* the dialogue of user 1, with redemption and deletion, one update handled at
\* a time, while the writes to the logs table fail at times
LogUpdates ==
    SessionUpdates
    \cup {TextMessage("/auth", "auth777")}
    \cup {DeleteFileCallback(i) : i \in 1..MaxSessionFiles}

NextLog ==
    \/ \E ev \in LogUpdates : Dispatch(1, ev, {1}, MaxSessionFiles)
    \/ \E k \in TaskIds :
        \/ Drop(k)
        \/ require_authorization(k)
        \/ Body(k)
        \/ StartGetUser(k)
        \/ StartAnswer(k)
        \/ StartReturn(k)
        \/ AuthSteps(k)
        \/ HandleLogout(k)
        \/ UploadSteps(k)
        \/ DeleteSteps(k)
    \/ LogsOutage
    \/ Restart

SpecLog == InitAuthorized /\ [][NextLog]_vars

\* every update that goes to a handler behind require_authorization, one update
\* handled at a time, with users who log out and users rows that are removed
GateUpdates ==
    {TextMessage(t, NoArg) : t \in {BTN_PROCESS, BTN_LIST, BTN_LOGOUT, "hello"}}
    \cup {FileTypeCallback(t) : t \in FileTypes}
    \cup {DocumentMessage(n, f) : n \in FileNames, f \in FileUniqueIds}
    \cup {PhotoMessage(f) : f \in FileUniqueIds}
    \cup {DeleteFileCallback(i) : i \in 1..MaxSessionFiles}

NextGate ==
    \/ \E u \in UserIds, ev \in GateUpdates : Dispatch(u, ev, {1}, MaxSessionFiles)
    \/ \E k \in TaskIds :
        \/ Drop(k)
        \/ require_authorization(k)
        \/ Body(k)
        \/ HandleLogout(k)
        \/ UploadSteps(k)
        \/ DeleteSteps(k)
    \/ \E u \in UserIds : DeleteUserRow(u)
    \/ Restart

SpecGate == InitAuthorized /\ [][NextGate]_vars

\* the upload dialogue of one user whose updates are handled concurrently
RaceUpdates ==
    {TextMessage(t, NoArg) : t \in {"/start", "/cancel", BTN_PROCESS, BTN_LIST, "hello"}}
    \cup {TextMessage("/auth", a) : a \in {"key123"}}
    \cup {FileTypeCallback(t) : t \in FileTypes}
    \cup {DocumentMessage(n, f) : n \in FileNames, f \in FileUniqueIds}
    \cup {PhotoMessage(f) : f \in FileUniqueIds}
    \cup {DeleteFileCallback(i) : i \in {1}}

NextRace ==
    \/ \E ev \in RaceUpdates : Dispatch(1, ev, TaskIds, MaxSessionFiles)
    \/ \E k \in TaskIds :
        \/ Drop(k)
        \/ require_authorization(k)
        \/ Body(k)
        \/ StartGetUser(k)
        \/ StartAnswer(k)
        \/ StartReturn(k)
        \/ AuthGetUser(k)
        \/ UploadSteps(k)
        \/ DeleteSteps(k)
    \/ Restart

SpecRace == InitAuthorized /\ [][NextRace]_vars

\* registration, key redemption and photo uploads of both users from the
\* empty store, handled concurrently
IdentityUpdates ==
    {TextMessage("/start", NoArg), TextMessage(BTN_PROCESS, NoArg)}
    \cup {TextMessage("/auth", a) : a \in {"key123", "secretkey"}}
    \cup {FileTypeCallback("photo")}
    \cup {PhotoMessage(f) : f \in FileUniqueIds}

NextIdentity ==
    \/ \E u \in UserIds, ev \in IdentityUpdates : Dispatch(u, ev, TaskIds, MaxSessionFiles)
    \/ \E k \in TaskIds :
        \/ Drop(k)
        \/ require_authorization(k)
        \/ Body(k)
        \/ StartSteps(k)
        \/ AuthSteps(k)
        \/ UploadSteps(k)
    \/ Restart

SpecIdentity == Init /\ [][NextIdentity]_vars

(***************************************************************************)
(* Properties of key redemption (authorize_user_with_key), under Spec.     *)
(***************************************************************************)
\* task k's call of authorize_user_with_key returns in this step
Returns(k, message) ==
    /\ tasks[k].h = "cmd_auth" /\ tasks[k].pc # "reply"
    /\ tasks'[k].h = "cmd_auth" /\ tasks'[k].pc = "reply" /\ tasks'[k].loc = message

\* C1: a redemption succeeds only by turning a key that was still unused into a
\* used one, so of any number of concurrent callers with one key at most one
\* succeeds; a caller that reads the key while it is used gets "already used",
\* and no two transactions ever work on the same key row at once.
C1_RedeemAtMostOnce ==
    [][\A k \in TaskIds :
          /\ Returns(k, "success") =>
                /\ ~auth_keys[tasks[k].arg]
                /\ auth_keys'[tasks[k].arg]
                /\ \A j \in TaskIds \ {k} : ~Returns(j, "success")
                /\ \A j \in TaskIds \ {k} :
                      tasks[j].h = "cmd_auth" /\ tasks[j].arg = tasks[k].arg
                          => tasks[j].pc \notin InTransaction
          /\ (tasks[k].h = "cmd_auth" /\ tasks[k].pc = "check_auth_key"
                /\ tasks'[k].pc \notin {"check_auth_key", "free"}
                /\ tasks[k].arg \in DOMAIN auth_keys /\ auth_keys[tasks[k].arg])
                => Returns(k, "key already used")
      ]_vars

\* C1 witness: two users redeemed the same key; one call returned success and
\* the other "already used", and only the first user is authorized
C1_Witness ==
    \E j, k \in TaskIds :
        /\ tasks[j].h = "cmd_auth" /\ tasks[j].pc = "reply" /\ tasks[j].loc = "success"
        /\ tasks[k].h = "cmd_auth" /\ tasks[k].pc = "reply"
        /\ tasks[k].loc = "key already used"
        /\ tasks[j].arg = tasks[k].arg /\ tasks[j].uid # tasks[k].uid
        /\ Authorized(tasks[j].uid) /\ ~Authorized(tasks[k].uid)

\* C2: when a redemption returns success the user's flag and the key's flag are
\* both true, and the store never shows one of the two updates without the
\* other: a key becomes used only in the step that commits a redemption, and
\* that step leaves the redeeming user authorized.
C2_RedeemAtomic ==
    [][/\ \A k \in TaskIds :
             Returns(k, "success") =>
                /\ auth_keys'[tasks[k].arg]
                /\ users'[tasks[k].uid].rows > 0 /\ users'[tasks[k].uid].is_authorized
       /\ \A t \in DOMAIN auth_keys :
             (~auth_keys[t] /\ auth_keys'[t]) =>
                \E k \in TaskIds :
                   /\ Returns(k, "success") /\ tasks[k].arg = t
                   /\ users'[tasks[k].uid].rows > 0 /\ users'[tasks[k].uid].is_authorized
      ]_vars

\* C2 witness: a redemption has returned success; the user is authorized and
\* the key is used
C2_Witness ==
    \E k \in TaskIds :
        /\ tasks[k].h = "cmd_auth" /\ tasks[k].pc = "reply" /\ tasks[k].loc = "success"
        /\ Authorized(tasks[k].uid) /\ auth_keys[tasks[k].arg]

\* C3: a redemption with a key that has no row returns "invalid key", one with a
\* used key returns "key already used", and a call that returns either of them
\* changes no key row and no users row.
C3_RedeemRejects ==
    [][\A k \in TaskIds :
          /\ (tasks[k].h = "cmd_auth" /\ tasks[k].pc = "check_auth_key"
                /\ tasks'[k].pc \notin {"check_auth_key", "free"}) =>
                /\ tasks[k].arg \notin DOMAIN auth_keys => Returns(k, "invalid key")
                /\ (tasks[k].arg \in DOMAIN auth_keys /\ auth_keys[tasks[k].arg])
                      => Returns(k, "key already used")
          /\ (Returns(k, "invalid key") \/ Returns(k, "key already used")) =>
                auth_keys' = auth_keys /\ users' = users
      ]_vars

\* C3 witness: one call has returned "invalid key" and another "key already used"
C3_Witness ==
    \E j, k \in TaskIds :
        /\ tasks[j].h = "cmd_auth" /\ tasks[j].pc = "reply" /\ tasks[j].loc = "invalid key"
        /\ tasks[j].arg \notin DOMAIN auth_keys
        /\ tasks[k].h = "cmd_auth" /\ tasks[k].pc = "reply"
        /\ tasks[k].loc = "key already used" /\ auth_keys[tasks[k].arg]

\* C4: a key that is used stays in the table and stays used in every step
\* (registration, redemption, logout, restart with create_tables).
C4_KeyUsedMonotonic ==
    [][\A t \in DOMAIN auth_keys :
          auth_keys[t] => (t \in DOMAIN auth_keys' /\ auth_keys'[t])]_vars

\* C4 witness: a key is used although no user is authorized any more (its user
\* has logged out) and no handler is running (as after a restart)
C4_Witness ==
    /\ \E t \in DOMAIN auth_keys : auth_keys[t]
    /\ \A u \in UserIds : Registered(u) /\ ~Authorized(u)
    /\ \A k \in TaskIds : IsFree(k)

(***************************************************************************)
(* Properties of file deletion (handle_delete_file), under SpecFiles.      *)
(***************************************************************************)
Ids(rows) == {rows[i].id : i \in 1..Len(rows)}

\* the step may be the end of the process: no task and no session is left
Restarted == (\A j \in TaskIds : tasks'[j].pc = "free") /\ fsm' = [u \in UserIds |-> StateNone]

\* task k, running handle_delete_file, takes this step
DeleteStep(k) == tasks[k].h = "handle_delete_file" /\ tasks'[k].pc # tasks[k].pc

\* ... and the step is the handler's own, not the end of the process
DeleteContinues(k) == DeleteStep(k) /\ tasks'[k].pc # "free"

\* the storage row with id file_id exists and belongs to another user than user_id
OwnedByOther(file_id, user_id) ==
    \E i \in get_file_record(file_id) : storage[i].user_id # user_id

OwnedBy(file_id, user_id) ==
    \E i \in get_file_record(file_id) : storage[i].user_id = user_id

\* C5 (as claimed): no step of a delete requested by a user who does not own
\* the row removes the row or its blob, and the request does not end as
\* "deleted".
C5_NonOwnerDeleteForbidden ==
    [][\A k \in TaskIds :
          (DeleteStep(k) /\ OwnedByOther(tasks[k].arg, tasks[k].uid)) =>
              /\ storage' = storage
              /\ disk' = disk
              /\ tasks'[k].pc # "delete_file_from_disk"
      ]_vars

\* C6: when the DELETE of a delete request finds the row and the requester owns
\* it, the request ends as "deleted" and the row is gone from the owner's
\* listing; a file that has left a user's listing never returns to it.
C6_OwnerDeleteUnlists ==
    [][/\ \A k \in TaskIds :
             (DeleteContinues(k) /\ tasks[k].pc = "delete"
                 /\ OwnedBy(tasks[k].arg, tasks[k].uid)) =>
                 /\ tasks'[k].pc = "delete_file_from_disk"
                 /\ tasks[k].arg \notin Ids(get_user_files(tasks[k].uid))'
       /\ \A u \in UserIds, i \in 1..storage_seq :
             i \notin Ids(get_user_files(u)) => i \notin Ids(get_user_files(u))'
      ]_vars

\* C6 witness: the owner's delete request has removed the row and is about to
\* answer "deleted", while the owner still has another file listed
C6_Witness ==
    \E k \in TaskIds :
        /\ tasks[k].h = "handle_delete_file" /\ tasks[k].pc = "delete_file_from_disk"
        /\ tasks[k].loc.dir = tasks[k].uid
        /\ tasks[k].arg \notin Ids(get_user_files(tasks[k].uid))
        /\ get_user_files(tasks[k].uid) # <<>>

\* C7: a delete request whose lookups find no row with the id ends as "not
\* found", and no step of a request that found no row changes the ledger, the
\* blobs, the users, the keys or the sessions.
C7_DeleteMissingNoEffect ==
    [][\A k \in TaskIds :
          /\ (DeleteContinues(k) /\ tasks[k].pc = "get_file_record"
                /\ get_file_record(tasks[k].arg) = {}) => tasks'[k].pc = "recheck"
          /\ (DeleteContinues(k) /\ tasks[k].pc = "recheck"
                /\ get_file_record(tasks[k].arg) = {}) => tasks'[k].pc = "not_found"
          /\ (DeleteStep(k)
                /\ \/ tasks[k].pc \in {"recheck", "not_found", "permission_denied"}
                   \/ tasks[k].pc = "get_file_record" /\ get_file_record(tasks[k].arg) = {})
                => /\ UNCHANGED <<users, auth_keys, storage, storage_seq, disk>>
                   /\ fsm' = fsm \/ Restarted
      ]_vars

\* C7 witness: a request for an id that was never stored is about to answer
\* "not found", with another file in the ledger and on disk
C7_Witness ==
    \E k \in TaskIds :
        /\ tasks[k].h = "handle_delete_file" /\ tasks[k].pc = "not_found"
        /\ tasks[k].arg > storage_seq
        /\ storage # <<>> /\ disk # {}

(***************************************************************************)
(* Properties of the upload session (the FSM state of a user).             *)
(***************************************************************************)
\* the edges of the session: Idle -> ChoosingKind, ChoosingKind -> Awaiting*,
\* Awaiting* -> Idle, non-Idle -> Idle, any -> ChoosingKind
LegalEdge(a, b) ==
    \/ b = choosing_file_type
    \/ a = choosing_file_type /\ b \in {awaiting_document, awaiting_photo}
    \/ a # StateNone /\ b = StateNone

\* the handlers that write the FSM state
SessionWriters ==
    {"handle_process_file", "handle_file_type_choice", "handle_document_upload",
     "handle_photo_upload", "cancel_upload_command"}

\* the session states in which the dispatcher gives some update to the handler
DispatchStates ==
    [h \in SessionWriters |->
        {st \in FsmStates : \E ev \in Updates : Route(ev, st) = h}]

\* task k, running a handler, takes this step
TaskStep(k) == tasks[k].pc # "free" /\ tasks'[k].pc # tasks[k].pc

\* C8 (as claimed): every change of a user's session is along a legal edge, and
\* a step of a handler of an event that is not the expected input (the
\* wrong-input handlers, /start, /auth, list, delete, unhandled updates) leaves
\* every session unchanged.
C8_OnlyLegalEdges ==
    [][/\ \A u \in UserIds : fsm'[u] # fsm[u] => LegalEdge(fsm[u], fsm'[u])
       /\ \A k \in TaskIds :
             (TaskStep(k) /\ tasks[k].h \notin SessionWriters) =>
                 (fsm' = fsm \/ Restarted)
      ]_vars

\* C8 (amended): a user's session changes only at the end of the process or in
\* a step of handle_process_file, handle_file_type_choice or an upload handler
\* running for that user, and the change is along a legal edge whenever the
\* session is then still in a state in which that handler is dispatched.
C8_LegalEdgesWhileStateAdmits ==
    [][\A u \in UserIds :
          fsm'[u] # fsm[u] =>
              \/ Restarted
              \/ \E k \in TaskIds :
                    /\ TaskStep(k)
                    /\ tasks[k].uid = u
                    /\ tasks[k].h \in SessionWriters
                    /\ fsm[u] \in DispatchStates[tasks[k].h] =>
                           LegalEdge(fsm[u], fsm'[u])
      ]_vars

\* C8 witness: the session went Idle -> ChoosingKind -> AwaitingPhoto, an upload
\* is about to complete it, and an event that is not a photo is being handled
C8_Witness ==
    \E j, k \in TaskIds :
        /\ tasks[j].h = "handle_photo_upload" /\ tasks[j].pc = "uploaded"
        /\ tasks[k].h = "handle_wrong_photo_input" /\ tasks[k].pc = "body"
        /\ tasks[j].uid = tasks[k].uid
        /\ fsm[tasks[j].uid] = awaiting_photo

\* C9 (as claimed): the handling of a /cancel of an authorized user is
\* cancel_upload_command's, and when it ends the user's session is Idle.
C9_CancelClears ==
    [][\A k \in TaskIds :
          (TaskStep(k) /\ tasks[k].text = "/cancel" /\ tasks'[k].pc = "free"
              /\ Authorized(tasks[k].uid)) =>
              /\ tasks[k].h = "cancel_upload_command"
              /\ fsm'[tasks[k].uid] = StateNone
      ]_vars

\* C10: the main-menu upload button is given to handle_process_file in every
\* session state; for an authorized user the authorization check lets it
\* through, and its body leaves the user's session in choosing_file_type.
C10_StartSupersedes ==
    [][\A k \in TaskIds :
          /\ (tasks[k].pc = "free" /\ tasks'[k].pc # "free"
                /\ tasks'[k].text = BTN_PROCESS) =>
                tasks'[k].h = "handle_process_file"
          /\ (tasks[k].h = "handle_process_file" /\ tasks[k].pc = "guard"
                /\ Authorized(tasks[k].uid) /\ TaskStep(k) /\ ~Restarted) =>
                tasks'[k].pc = "body"
          /\ (tasks[k].h = "handle_process_file" /\ tasks[k].pc = "body"
                /\ TaskStep(k) /\ ~Restarted) =>
                fsm'[tasks[k].uid] = choosing_file_type
      ]_vars

\* C10 witness: an authorized user's upload request has passed the
\* authorization check while the user's session is awaiting a file
C10_Witness ==
    \E k \in TaskIds :
        /\ tasks[k].h = "handle_process_file" /\ tasks[k].pc = "body"
        /\ Authorized(tasks[k].uid)
        /\ fsm[tasks[k].uid] \in {awaiting_document, awaiting_photo}

(***************************************************************************)
(* Error handling of the upload dialogue.                                  *)
(***************************************************************************)
\* C11 (as claimed): a file-type callback that arrives while the session is not
\* in choosing_file_type (no handler takes it), or that carries a type other
\* than document and photo, leaves the user's session Idle.
C11_ChooseKindErrorClears ==
    [][\A k \in TaskIds :
          (TaskStep(k) /\ tasks[k].kind = "file_type" /\ tasks'[k].pc = "free"
              /\ \/ tasks[k].h = Unhandled
                 \/ tasks[k].pc = "body" /\ tasks[k].arg \notin {"document", "photo"}) =>
              fsm'[tasks[k].uid] = StateNone
      ]_vars

\* a step of an upload handler past the authorization and extension checks
SubmitStep(k) ==
    /\ TaskStep(k)
    /\ tasks[k].h \in UploadHandlers
    /\ tasks[k].pc \in {"save_uploaded_file", "add_file_record", "uploaded", "db_error"}

\* C12 (as claimed): when the handling of a document in awaiting_document or of
\* a photo in awaiting_photo ends, after a successful or a failed blob write or
\* ledger insert, the user's session is Idle.
C12_SubmitAlwaysClears ==
    [][\A k \in TaskIds :
          (SubmitStep(k) /\ tasks'[k].pc = "free") => fsm'[tasks[k].uid] = StateNone
      ]_vars

\* the allow-list as the specification gives it
AllowList == {".pdf", ".doc", ".docx", ".xlsx"}

\* task k is about to check a document of an authorized user
DocumentCheck(k) ==
    /\ TaskStep(k)
    /\ tasks[k].h = "handle_document_upload" /\ tasks[k].pc = "guard"
    /\ Authorized(tasks[k].uid)

\* the document is turned away: the handling ends with no blob, no row and the
\* sessions as they were
Rejected(k) ==
    /\ tasks'[k].pc = "free"
    /\ UNCHANGED <<storage, storage_seq, disk>>
    /\ fsm' = fsm \/ Restarted

\* C13 (as claimed): a document whose file-name extension, as sent, is not one
\* of the allow-list is rejected.
C13_ExtensionRejectedVerbatim ==
    [][\A k \in TaskIds :
          (DocumentCheck(k) /\ tasks[k].arg.file_name.suffix \notin AllowList) =>
              Rejected(k)
      ]_vars

\* C13 (amended): a document whose file-name extension, lower-cased, is not one
\* of the allow-list (a missing name counts as "unknown_document") is rejected;
\* one whose lower-cased extension is allowed goes on to the blob write.
C13_ExtensionRejected ==
    [][\A k \in TaskIds :
          DocumentCheck(k) =>
              IF Lower(tasks[k].arg.file_name.suffix) \notin AllowList
              THEN Rejected(k)
              ELSE Restarted \/ tasks'[k].pc = "save_uploaded_file"
      ]_vars

\* C13 witness: a .txt document is about to be checked while the authorized
\* sender's session awaits a document
C13_Witness ==
    \E k \in TaskIds :
        /\ tasks[k].h = "handle_document_upload" /\ tasks[k].pc = "guard"
        /\ tasks[k].arg.file_name.suffix = ".txt"
        /\ Authorized(tasks[k].uid)
        /\ fsm[tasks[k].uid] = awaiting_document

\* C14: a step of _save_uploaded_file that writes no blob ends the handling (the
\* "could not save" reply) without an insert: the ledger and its id sequence
\* are unchanged, and the insert is reached only with the blob on disk.
C14_FailedBlobWriteNoRow ==
    [][\A k \in TaskIds :
          (TaskStep(k) /\ tasks[k].h \in UploadHandlers
              /\ tasks[k].pc = "save_uploaded_file") =>
              /\ UNCHANGED <<storage, storage_seq>>
              /\ tasks[k].loc.file_path \notin disk' => tasks'[k].pc = "free"
      ]_vars

\* C14 witness: a blob write is pending while the ledger holds no row and the
\* blob is not on disk
C14_Witness ==
    \E k \in TaskIds :
        /\ tasks[k].h \in UploadHandlers /\ tasks[k].pc = "save_uploaded_file"
        /\ tasks[k].loc.file_path \notin disk
        /\ storage = <<>>

\* task k takes the step of add_file_record
InsertStep(k) ==
    /\ TaskStep(k)
    /\ tasks[k].h \in UploadHandlers /\ tasks[k].pc = "add_file_record"

\* the step has added the row of task k's upload to the ledger
RowCreated(k) ==
    /\ Len(storage') = Len(storage) + 1
    /\ storage'[Len(storage')].user_id = tasks[k].uid
    /\ storage'[Len(storage')].file_path = tasks[k].loc.file_path

\* C15 (as claimed): an insert that creates no ledger row is never followed by
\* the "uploaded" reply, for any cause of the failure; the blob stays on disk.
C15_InsertFailureSurfaced ==
    [][\A k \in TaskIds :
          InsertStep(k) =>
              /\ tasks'[k].pc = "uploaded" => RowCreated(k)
              /\ disk' = disk
      ]_vars

(***************************************************************************)
(* Properties of the ledger and the blob directory, under SpecFiles.       *)
(***************************************************************************)
\* C16 (as claimed): the file_path of every storage row is a blob on disk, and
\* no two storage rows have the same file_path.
C16_HandleDenotesOneBlob ==
    /\ \A i \in 1..Len(storage) : storage[i].file_path \in disk
    /\ \A i, j \in 1..Len(storage) :
          i # j => storage[i].file_path # storage[j].file_path

\* C17 (as claimed): after the insert of an upload the new row is the first
\* entry of the uploader's listing, a document's original_filename is the
\* file name as sent, and no other row has the new row's file_path.
C17_UploadListedFirst ==
    [][\A k \in TaskIds :
          (InsertStep(k) /\ RowCreated(k)) =>
              LET new == storage'[Len(storage')]
                  listing == get_user_files(tasks[k].uid)'
              IN  /\ listing # <<>>
                  /\ Head(listing).id = new.id
                  /\ tasks[k].kind = "document" =>
                        Head(listing).original_filename = tasks[k].arg.file_name
                  /\ \A i \in 1..Len(storage) :
                        storage'[i].file_path # new.file_path
      ]_vars

(***************************************************************************)
(* Properties of require_authorization, under SpecGate.                    *)
(***************************************************************************)
\* C18: when the wrapper of a gated handler (logout, upload button, listing,
\* file-type choice, delete, document, photo, wrong input) finds no users row
\* or an unauthorized one, the handling ends there with the unauthorized reply:
\* users, keys, ledger, blobs and sessions are unchanged.
C18_GateNoStateChange ==
    [][\A k \in TaskIds :
          (TaskStep(k) /\ tasks[k].pc = "guard" /\ ~Authorized(tasks[k].uid)) =>
              /\ tasks[k].h \in Gated
              /\ tasks'[k].pc = "free"
              /\ UNCHANGED <<users, auth_keys, storage, storage_seq, disk>>
              /\ fsm' = fsm \/ Restarted
      ]_vars

\* C18 witness: a user who is registered but not authorized, with a session
\* under way, asks to delete a row that exists
C18_Witness ==
    \E k \in TaskIds :
        /\ tasks[k].h = "handle_delete_file" /\ tasks[k].pc = "guard"
        /\ Registered(tasks[k].uid) /\ ~Authorized(tasks[k].uid)
        /\ fsm[tasks[k].uid] # StateNone
        /\ get_file_record(tasks[k].arg) # {}

(***************************************************************************)
(* Properties of the audit log, under SpecLog.                             *)
(***************************************************************************)
\* C19: a step of a handler taken while the INSERT INTO logs fails has the
\* handler's full effect: the upload button sets choosing_file_type, the
\* file-type choice sets the state of its type, a finished upload (stored or
\* with a database error) clears the session, a logout withdraws the
\* authorization, a redemption commits, a delete removes the row, and a blob
\* write and a ledger insert go on as they do with a writable log.
C19_LogFailureNonFatal ==
    [][\A k \in TaskIds :
          (TaskStep(k) /\ ~logs_ok /\ ~Restarted) =>
              LET t == tasks[k]
              IN  /\ (t.h = "handle_process_file" /\ t.pc = "body") =>
                        fsm'[t.uid] = choosing_file_type
                  /\ (t.h = "handle_file_type_choice" /\ t.pc = "body") =>
                        fsm'[t.uid] = handle_file_type_choice(t.arg, fsm[t.uid])
                  /\ (t.h \in UploadHandlers /\ t.pc \in {"uploaded", "db_error"}) =>
                        fsm'[t.uid] = StateNone
                  /\ (t.h = "handle_logout" /\ t.pc = "set_user_authorization_status") =>
                        ~users'[t.uid].is_authorized
                  /\ (t.h = "cmd_auth" /\ t.pc = "commit") =>
                        auth_keys'[t.arg] /\ users'[t.uid].is_authorized
                  /\ (t.h = "handle_delete_file" /\ t.pc = "delete"
                        /\ get_file_record(t.arg) # {}) =>
                        get_file_record(t.arg)' = {}
                  /\ (t.h \in UploadHandlers /\ t.pc = "save_uploaded_file") =>
                        tasks'[k].pc \in {"add_file_record", "free"}
                  /\ (t.h \in UploadHandlers /\ t.pc = "add_file_record") =>
                        tasks'[k].pc \in {"uploaded", "db_error"}
      ]_vars

\* C19 witness: the logs table is unwritable while a stored upload is about to
\* write its log entry and clear the session
C19_Witness ==
    \E k \in TaskIds :
        /\ ~logs_ok
        /\ tasks[k].h \in UploadHandlers /\ tasks[k].pc = "uploaded"
        /\ storage # <<>>
        /\ fsm[tasks[k].uid] # StateNone

(***************************************************************************)
(* Properties of logout, under Spec.                                       *)
(***************************************************************************)
\* C20: the UPDATE of handle_logout leaves the user unauthorized whatever the
\* row's flag was, and changes no key, no other user's row and no storage row;
\* for a user without a row set_user_authorization_status changes nothing.
C20_DeauthorizeFrame ==
    [][/\ \A k \in TaskIds :
             (TaskStep(k) /\ tasks[k].h = "handle_logout"
                 /\ tasks[k].pc = "set_user_authorization_status") =>
                 /\ \/ ~users'[tasks[k].uid].is_authorized
                    \/ users' = users /\ \A j \in TaskIds : tasks'[j].pc = "free"
                 /\ \A v \in UserIds \ {tasks[k].uid} : users'[v] = users[v]
                 /\ users'[tasks[k].uid].rows = users[tasks[k].uid].rows
                 /\ \A key \in DOMAIN auth_keys : auth_keys[key] => auth_keys'[key]
                 /\ UNCHANGED <<storage, storage_seq, disk>>
       /\ \A u \in UserIds :
             ~Registered(u) => set_user_authorization_status(u, FALSE) = users
      ]_vars

\* C20 witness: a logout is about to run its UPDATE on a row that is already
\* unauthorized, while the key the user redeemed is used and the other user
\* is authorized
C20_Witness ==
    \E k \in TaskIds :
        /\ tasks[k].h = "handle_logout"
        /\ tasks[k].pc = "set_user_authorization_status"
        /\ Registered(tasks[k].uid) /\ ~Authorized(tasks[k].uid)
        /\ \E v \in UserIds \ {tasks[k].uid} : Authorized(v)
        /\ Cardinality({key \in DOMAIN auth_keys : auth_keys[key]}) = 2

(***************************************************************************)
(* Identity of users and ownership of rows, under SpecIdentity.            *)
(***************************************************************************)
\* C21: in every reachable state the users table holds at most one row per
\* user_id, also after concurrent /start updates of the same new user; the
\* user_id of every storage row has a users row; and every redemption that is
\* inside authorize_user_with_key, or has returned from it, is for a user_id
\* that has a users row.
C21_OneRowPerUser ==
    /\ \A u \in UserIds : users[u].rows <= 1
    /\ \A i \in 1..Len(storage) : Registered(storage[i].user_id)
    /\ \A k \in TaskIds :
          (tasks[k].h = "cmd_auth" /\ tasks[k].pc \in InTransaction \cup {"check_auth_key", "reply"})
              => Registered(tasks[k].uid)

\* C21 witness: of two concurrent /start updates of one new user the second
\* INSERT has raised, so the user has one row, while the other user has
\* redeemed a key and owns a storage row
C21_Witness ==
    \E k \in TaskIds :
        /\ tasks[k].h = "cmd_start" /\ tasks[k].pc = "answer"
        /\ tasks[k].text = "/start"
        /\ \E j \in TaskIds \ {k} :
              /\ tasks[j].h = "cmd_start" /\ tasks[j].pc = "answer"
              /\ tasks[j].uid = tasks[k].uid
        /\ users[tasks[k].uid].rows = 1
        /\ \E v \in UserIds \ {tasks[k].uid} :
              /\ Authorized(v)
              /\ \E i \in 1..Len(storage) : storage[i].user_id = v
        /\ \E key \in DOMAIN auth_keys : auth_keys[key]

(***************************************************************************)
(* The audit rows of cmd_start, under Spec.                                *)
(***************************************************************************)
\* C22: a /start handler that returns has inserted exactly one row into logs,
\* whether it registered the user or found the user registered (authorized
\* or not): never zero rows and never two.
C22_StartLogsOnce ==
    \A k \in TaskIds :
        (tasks[k].h = "cmd_start" /\ tasks[k].pc = "return") => tasks[k].loc.logged = 1

(***************************************************************************)
(* The sessions of different users, under SpecIdentity.                    *)
(***************************************************************************)
\* C23: the FSM state is kept per user: a step changes the state of user v
\* only if it is a step of a handler that runs for an update of v (or the end
\* of the process, which loses every state); the dispatch of an update and
\* the steps of handlers of other users' updates leave v's state as it was.
C23_SessionPerUser ==
    [][\A v \in UserIds :
          fsm'[v] # fsm[v] =>
             \/ Restarted
             \/ \E k \in TaskIds :
                   /\ TaskStep(k) /\ tasks[k].uid = v
                   /\ \A w \in UserIds \ {v} : fsm'[w] = fsm[w]
      ]_vars

\* C23 witness: a photo upload of one user is about to clear that user's
\* state while the other user, whose handler is running too, is in the
\* dialogue
C23_Witness ==
    \E k \in TaskIds :
        /\ tasks[k].h = "handle_photo_upload" /\ tasks[k].pc = "uploaded"
        /\ fsm[tasks[k].uid] = awaiting_photo
        /\ \E j \in TaskIds \ {k} :
              /\ tasks[j].pc # "free" /\ tasks[j].uid # tasks[k].uid
              /\ tasks[j].uid \in UserIds
              /\ fsm[tasks[j].uid] \in {choosing_file_type, awaiting_photo}

(***************************************************************************)
(* Deletion when the blob cannot be removed, under SpecFiles.              *)
(***************************************************************************)
\* C24: when the owner's delete request comes to remove the blob, the storage
\* row is already gone; whether unlink removes the blob, raises, or the blob
\* is missing, the request ends with the "deleted" reply, and the step changes
\* nothing but, at most, that blob.
C24_BlobFailureStillDeleted ==
    [][\A k \in TaskIds :
          (DeleteStep(k) /\ tasks[k].pc = "delete_file_from_disk") =>
              (tasks[k].loc.dir = tasks[k].uid =>
                  /\ get_file_record(tasks[k].arg) = {}
                  /\ tasks'[k].pc = "free"
                  /\ disk' = disk \/ disk' = disk \ {tasks[k].loc}
                  /\ UNCHANGED <<users, auth_keys, storage, storage_seq>>)
      ]_vars

\* C24 witness: the owner's delete request has removed the row and comes to
\* remove a blob that is not on disk any more
C24_Witness ==
    \E k \in TaskIds :
        /\ tasks[k].h = "handle_delete_file" /\ tasks[k].pc = "delete_file_from_disk"
        /\ tasks[k].loc.dir = tasks[k].uid
        /\ tasks[k].loc \notin disk
        /\ get_file_record(tasks[k].arg) = {}

(***************************************************************************)
(* Concurrent delete requests for one file, under SpecFiles.               *)
(***************************************************************************)
\* C25: of the delete requests that have looked up one storage row, at most
\* one comes to the "deleted" reply and the removal of the blob: a request
\* gets there only in the step in which its DELETE removes the row, which
\* removes no other row, and an id that has left the table never returns.  A
\* request whose DELETE finds the row gone goes on to the second lookup and
\* the "not found" reply and changes nothing.
C25_OneDeleteWins ==
    [][/\ \A k \in TaskIds :
             (DeleteContinues(k) /\ tasks[k].pc = "delete") =>
                 IF get_file_record(tasks[k].arg) # {}
                 THEN /\ tasks'[k].pc = "delete_file_from_disk"
                      /\ Ids(storage') = Ids(storage) \ {tasks[k].arg}
                      /\ \A i \in 1..Len(storage) :
                            storage[i].id # tasks[k].arg =>
                               \E j \in 1..Len(storage') : storage'[j] = storage[i]
                      /\ UNCHANGED <<users, auth_keys, storage_seq, disk, fsm>>
                 ELSE /\ tasks'[k].pc = "recheck"
                      /\ UNCHANGED <<users, auth_keys, storage, storage_seq, disk, fsm>>
       /\ \A k \in TaskIds :
             (DeleteContinues(k) /\ tasks'[k].pc = "delete_file_from_disk") =>
                 /\ tasks[k].arg \in Ids(storage)
                 /\ tasks[k].arg \notin Ids(storage')
       /\ \A k \in TaskIds :
             (DeleteContinues(k) /\ tasks[k].pc = "recheck"
                 /\ tasks[k].arg \notin Ids(storage)) =>
                 /\ tasks'[k].pc = "not_found"
                 /\ UNCHANGED <<users, auth_keys, storage, storage_seq, disk, fsm>>
       /\ \A i \in 1..storage_seq : i \notin Ids(storage) => i \notin Ids(storage')
      ]_vars

\* C25 witness: two delete requests have looked up the same row; the DELETE
\* of one has removed it and the other is about to run its DELETE, while
\* another row is in the table
C25_Witness ==
    \E k \in TaskIds, j \in TaskIds :
        /\ k # j
        /\ tasks[k].h = "handle_delete_file" /\ tasks[k].pc = "delete_file_from_disk"
        /\ tasks[j].h = "handle_delete_file" /\ tasks[j].pc = "delete"
        /\ tasks[j].arg = tasks[k].arg
        /\ tasks[k].arg \notin Ids(storage)
        /\ storage # <<>>

(***************************************************************************)
(* Keys and the users they authorize, under Spec.                          *)
(***************************************************************************)
\* the users whose is_authorized goes from false to true in this step
NewlyAuthorized == {u \in UserIds : Registered(u) /\ ~users[u].is_authorized
                                     /\ users'[u].rows > 0 /\ users'[u].is_authorized}

\* C26: in every step in which the used flag of a key goes from false to
\* true, the authorized flag of exactly one registered user goes from false
\* to true; so two concurrent /auth updates of one unauthorized user with two
\* different unused keys do not use up both keys.
C26_UsedKeyAuthorizesOne ==
    [][\A t \in DOMAIN auth_keys :
          (~auth_keys[t] /\ auth_keys'[t]) => Cardinality(NewlyAuthorized) = 1
      ]_vars

(***************************************************************************)
(* Sessions and authorization, under SpecSession.                          *)
(***************************************************************************)
\* C27: in every reachable state a user whose FSM state is one of
\* choosing_file_type, awaiting_document and awaiting_photo is authorized: a
\* logout leaves no state behind.
C27_SessionImpliesAuthorized ==
    \A u \in UserIds : fsm[u] \in FileUpload => Authorized(u)

(***************************************************************************)
(* How a user becomes authorized, under Spec.                              *)
(***************************************************************************)
\* the users who are authorized after this step and were not before it
BecomeAuthorized == {u \in UserIds : ~Authorized(u) /\ users'[u].rows > 0
                                      /\ users'[u].is_authorized}

\* C28: a user becomes authorized only in the step in which that user's
\* redemption returns success and turns a key that was unused into a used
\* one; a step of /start leaves the flag of a registered user as it is and
\* gives a new row the flag false.  No step authorizes more users than it
\* uses up keys and no key becomes unused again, so there are never more
\* such transitions than used keys.
C28_AuthorizedOnlyByRedeem ==
    [][/\ \A u \in BecomeAuthorized :
             \E k \in TaskIds :
                 /\ Returns(k, "success") /\ tasks[k].uid = u
                 /\ ~auth_keys[tasks[k].arg] /\ auth_keys'[tasks[k].arg]
       /\ \A k \in TaskIds :
             (TaskStep(k) /\ tasks[k].h = "cmd_start") =>
                 /\ \A u \in UserIds :
                       users'[u].is_authorized = users[u].is_authorized
                 /\ \A u \in UserIds \ {tasks[k].uid} : users'[u] = users[u]
       /\ Cardinality(BecomeAuthorized)
             <= Cardinality({t \in DOMAIN auth_keys : ~auth_keys[t] /\ auth_keys'[t]})
       /\ \A t \in DOMAIN auth_keys : auth_keys[t] => auth_keys'[t]
      ]_vars

\* C28 witness: a redemption has returned success, its user is authorized and
\* its key used, while a /start of the same user is about to return and the
\* other user is registered and not authorized
C28_Witness ==
    \E k \in TaskIds, j \in TaskIds :
        /\ tasks[k].h = "cmd_auth" /\ tasks[k].pc = "reply"
        /\ tasks[k].text = "/auth"
        /\ tasks[k].arg \in DOMAIN auth_keys
        /\ Authorized(tasks[k].uid) /\ auth_keys[tasks[k].arg]
        /\ tasks[j].h = "cmd_start" /\ tasks[j].pc = "return"
        /\ tasks[j].uid = tasks[k].uid
        /\ \E v \in UserIds : Registered(v) /\ ~Authorized(v)
        /\ Cardinality({t \in DOMAIN auth_keys : auth_keys[t]}) = 1

====
